---------------------------- MODULE Spec2Model ----------------------------
(***************************************************************************)
(* A model of xla::cpu::AllToAllThunk                                      *)
(* (xla/service/cpu/runtime/all_to_all_thunk.cc).                          *)
(*                                                                         *)
(* One thunk runs per participant (rank).  Execute resolves the thunk's    *)
(* buffers, asks the collective-thunk base for the communicator of the     *)
(* rendezvous key, and inside the callback invokes                         *)
(* CollectivesCommunicator::AllToAll, the single blocking call.  The base  *)
(* class (GetOpDeviceMemory, ExecuteWithCommunicator), ShapeUtil and the   *)
(* communicator are not part of all_to_all_thunk.cc; they are modelled     *)
(* from the contracts the specification states for them.                   *)
(***************************************************************************)
EXTENDS Integers, Sequences, FiniteSets, TLC

\* ------------------------------------------------------------------ bounds

\* Number of participants of the collective group (ranks 0..NumParticipants-1).
NumParticipants == 2

\* Elements per buffer and bytes per element of a well-formed operand shape.
ElemCount == 2

ElemWidth == 4

\* Run ids an Execute call's collective params may carry.
MaxRunId == 2

Ranks == 0 .. (NumParticipants - 1)

RunIds == 1 .. MaxRunId

\* Bytes allocated for every source and destination buffer.
BufLen == ElemCount * ElemWidth

\* ------------------------------------------------------------ status kinds

OkStatus == "OK"

BufferResolutionError == "BufferResolutionError"

GroupFormationError == "GroupFormationError"

CommunicationTimeout == "CommunicationTimeout"

TransportError == "TransportError"

\* The errors the communicator's primitive may return.
CommErrors == {CommunicationTimeout, TransportError, GroupFormationError}

\* ------------------------------------------------------------------ shapes

Shape(n, w) == [elements |-> n, width |-> w]

\* ShapeUtil::ByteSizeOf: element count times element byte width.
ByteSizeOf(shape) == shape.elements * shape.width

FullShape == Shape(ElemCount, ElemWidth)

SmallShape == Shape(ElemCount - 1, ElemWidth)

\* ------------------------------------------------------------------ memory

SrcAddr(p, i) == <<"src", p, i>>

DstAddr(p, i) == <<"dst", p, i>>

Addrs == {SrcAddr(p, i) : p \in Ranks, i \in Ranks} \cup {DstAddr(p, i) : p \in Ranks, i \in Ranks}

\* The byte at offset k of source buffer i of participant p before any call:
\* every byte of every source buffer is different, and none is 0.
SourceByte(p, i, k) == ((p * NumParticipants + i) * BufLen) + k

SourceBytes(p, i) == [k \in 1 .. BufLen |-> SourceByte(p, i, k)]

InitMem == [a \in Addrs |-> IF a[1] = "src" THEN SourceBytes(a[2], a[3]) ELSE [k \in 1 .. BufLen |-> 0]]

\* memcpy(dst, src, n) on the buffers' contents.
Memcpy(dst, src, n) == [k \in 1 .. Len(dst) |-> IF k <= n /\ k <= Len(src) THEN src[k] ELSE dst[k]]

\* -------------------------------------------------------------- OpBuffers

\* OpBuffers: the shapes of the source and destination operands, in order;
\* operand i of participant p is bound to buffer i of p.
ValidOpBuffers == [source_shapes |-> [i \in 1 .. NumParticipants |-> FullShape], destination_shapes |-> [i \in 1 .. NumParticipants |-> FullShape]]

\* Malformed: no destination buffer at all.
ZeroDstOpBuffers == [source_shapes |-> [i \in 1 .. NumParticipants |-> FullShape], destination_shapes |-> << >>]

\* Destination shape 0 smaller than the other destination shapes.
UnequalDstOpBuffers == [source_shapes |-> [i \in 1 .. NumParticipants |-> FullShape], destination_shapes |-> [i \in 1 .. NumParticipants |-> IF i = 1 THEN SmallShape ELSE FullShape]]

OpBuffersChoices == {ValidOpBuffers, ZeroDstOpBuffers, UnequalDstOpBuffers}

InfoChoices == {"all-to-all"}

OpParamsChoices == {[op_id |-> 1, has_channel_id |-> FALSE]}

\* ExecuteParams: whether the buffer allocations hold every slice of the
\* thunk, and the collective params (the run id identifies the call).
ExecuteParamsChoices == [slices_assigned : BOOLEAN, collective_params : [run_id : RunIds]]

NoThunk == [kind |-> "none"]

NoParams == [slices_assigned |-> FALSE, collective_params |-> [run_id |-> 0]]

NoData == [source |-> << >>, destination |-> << >>]

NoCall == [key |-> [run_id |-> 0, global_devices |-> {}], byte_size |-> 0, input_buffers |-> << >>, output_buffers |-> << >>, timeout |-> 0]

NoEvent == [state |-> "none", error |-> OkStatus]

PendingEvent == [state |-> "pending", error |-> OkStatus]

VARIABLES thunk, pc, params, data, event, call, result, mem, log

vars == <<thunk, pc, params, data, event, call, result, mem, log>>

Init ==
    /\ thunk = [p \in Ranks |-> NoThunk]
    /\ pc = [p \in Ranks |-> "nothunk"]
    /\ params = [p \in Ranks |-> NoParams]
    /\ data = [p \in Ranks |-> NoData]
    /\ event = [p \in Ranks |-> NoEvent]
    /\ call = [p \in Ranks |-> NoCall]
    /\ result = [p \in Ranks |-> "none"]
    /\ mem = InitMem
    /\ log = [p \in Ranks |-> << >>]

\* ----------------------------------------------------------------- Create

\* AllToAllThunk::AllToAllThunk: CollectiveThunk(Kind::kAllToAll, info, op_params, op_buffers).
AllToAllThunk(info, op_params, op_buffers) == [kind |-> "kAllToAll", info |-> info, op_params |-> op_params, op_buffers |-> op_buffers]

\* A variant that refuses OpBuffers without a destination.
CreateResult_Validating(info, op_params, op_buffers) ==
    IF Len(op_buffers.destination_shapes) = 0
    THEN [status |-> "ConstructionError", value |-> NoThunk]
    ELSE [status |-> OkStatus, value |-> AllToAllThunk(info, op_params, op_buffers)]

\* AllToAllThunk::Create: wraps a new thunk; there is no failing path.
CreateResult(info, op_params, op_buffers) == [status |-> OkStatus, value |-> AllToAllThunk(info, op_params, op_buffers)]

Create(p) ==
    /\ pc[p] = "nothunk"
    /\ \E info \in InfoChoices, op_params \in OpParamsChoices, op_buffers \in OpBuffersChoices :
          LET r == CreateResult(info, op_params, op_buffers) IN
          /\ thunk' = [thunk EXCEPT ![p] = IF r.status = OkStatus THEN r.value ELSE NoThunk]
          /\ pc' = [pc EXCEPT ![p] = IF r.status = OkStatus THEN "created" ELSE "create_failed"]
          /\ log' = [log EXCEPT ![p] = Append(@, <<"Create", r.status, [info |-> info, op_params |-> op_params, op_buffers |-> op_buffers]>>)]
    /\ UNCHANGED <<params, data, event, call, result, mem>>

\* ------------------------------------------------- collective-thunk base

\* The fixed timeout of every collective call, in minutes.
DefaultCollectiveTimeout == 30

\* CollectiveThunk::GetOpDeviceMemory: the device memory of every source and
\* destination slice, in operand order, or the error of the first slice the
\* buffer allocations do not hold.
GetOpDeviceMemory(p, t, prm) ==
    IF prm.slices_assigned
    THEN [status |-> OkStatus,
          value |-> [source |-> [i \in 1 .. Len(t.op_buffers.source_shapes) |-> SrcAddr(p, i - 1)],
                     destination |-> [i \in 1 .. Len(t.op_buffers.destination_shapes) |-> DstAddr(p, i - 1)]]]
    ELSE [status |-> BufferResolutionError, value |-> NoData]

\* The rendezvous key of a call: its run id and the devices of the group.
GetRendezvousKey(collective_params) == [run_id |-> collective_params.run_id, global_devices |-> Ranks]

\* An event in the failed state carrying the error.
FailedEvent(status) == [state |-> "failed", error |-> status]

\* OkExecuteEvent: an event already complete.
OkExecuteEvent == [state |-> "succeeded", error |-> OkStatus]

\* The event ExecuteWithCommunicator returns for the status of its callback.
EventOfStatus(status) == IF status = OkStatus THEN OkExecuteEvent ELSE FailedEvent(status)

\* The frame of a call that has returned: its locals are gone.
EndCall(p) ==
    /\ params' = [params EXCEPT ![p] = NoParams]
    /\ data' = [data EXCEPT ![p] = NoData]
    /\ call' = [call EXCEPT ![p] = NoCall]

\* ---------------------------------------------------------------- Execute

\* A variant that goes on after a failed resolution.
ReturnsOnResolution_Ignored(r) == FALSE

\* TF_ASSIGN_OR_RETURN(OpDeviceMemory data, GetOpDeviceMemory(params)):
\* Execute returns at once when the resolution did not succeed.
ReturnsOnResolution(r) == r.status # OkStatus

\* A variant that drops the event of the base and reports success.
ExecuteResult_AlwaysOk(base_event) == OkExecuteEvent

\* return ExecuteWithCommunicator(...): Execute hands the event of the base
\* to its caller as it is.
ExecuteResult(base_event) == base_event

\* A variant that reports the failed resolution and goes on with the call.
ExecuteResolve_ReportsAndGoesOn(p) ==
    /\ pc[p] = "created"
    /\ \E prm \in ExecuteParamsChoices :
          LET r == GetOpDeviceMemory(p, thunk[p], prm) IN
          /\ event' = [event EXCEPT ![p] = IF r.status # OkStatus THEN FailedEvent(r.status) ELSE PendingEvent]
          /\ pc' = [pc EXCEPT ![p] = "resolved"]
          /\ params' = [params EXCEPT ![p] = prm]
          /\ data' = [data EXCEPT ![p] = r.value]
          /\ log' = [log EXCEPT ![p] = IF r.status # OkStatus
                                       THEN @ \o << <<"GetOpDeviceMemory", r.status>>, <<"event", "failed">> >>
                                       ELSE Append(@, <<"GetOpDeviceMemory", r.status>>)]
    /\ UNCHANGED <<thunk, call, result, mem>>

\* Execute up to the resolution of its buffers.
ExecuteResolve(p) ==
    /\ pc[p] = "created"
    /\ \E prm \in ExecuteParamsChoices :
          LET r == GetOpDeviceMemory(p, thunk[p], prm) IN
          IF ReturnsOnResolution(r)
          THEN /\ event' = [event EXCEPT ![p] = FailedEvent(r.status)]
               /\ pc' = [pc EXCEPT ![p] = "done"]
               /\ log' = [log EXCEPT ![p] = @ \o << <<"GetOpDeviceMemory", r.status>>, <<"event", "failed">> >>]
               /\ UNCHANGED <<params, data>>
          ELSE /\ event' = [event EXCEPT ![p] = PendingEvent]
               /\ pc' = [pc EXCEPT ![p] = "resolved"]
               /\ params' = [params EXCEPT ![p] = prm]
               /\ data' = [data EXCEPT ![p] = r.value]
               /\ log' = [log EXCEPT ![p] = Append(@, <<"GetOpDeviceMemory", r.status>>)]
    /\ UNCHANGED <<thunk, call, result, mem>>

\* A variant in which Execute returns once the communicator is there and the
\* callback runs later, after the frame of the call is gone.
ExecuteWithCommunicator_Deferred(p) ==
    /\ pc[p] = "resolved"
    /\ \E formed \in BOOLEAN :
          IF formed
          THEN /\ pc' = [pc EXCEPT ![p] = "callback"]
               /\ log' = [log EXCEPT ![p] = Append(@, <<"ExecuteWithCommunicator", OkStatus>>)]
               /\ UNCHANGED event
          ELSE /\ pc' = [pc EXCEPT ![p] = "done"]
               /\ event' = [event EXCEPT ![p] = ExecuteResult(FailedEvent(GroupFormationError))]
               /\ log' = [log EXCEPT ![p] = @ \o << <<"ExecuteWithCommunicator", GroupFormationError>>, <<"event", event'[p].state>> >>]
    /\ EndCall(p)
    /\ UNCHANGED <<thunk, result, mem>>

\* return ExecuteWithCommunicator(params.collective_params, callback): the base
\* derives the key and obtains the communicator of the group, or fails when
\* the group cannot be formed; the callback runs only with a communicator.
ExecuteWithCommunicator(p) ==
    /\ pc[p] = "resolved"
    /\ \E formed \in BOOLEAN :
          IF formed
          THEN /\ pc' = [pc EXCEPT ![p] = "callback"]
               /\ log' = [log EXCEPT ![p] = Append(@, <<"ExecuteWithCommunicator", OkStatus>>)]
               /\ UNCHANGED <<event, params, data, call>>
          ELSE /\ pc' = [pc EXCEPT ![p] = "done"]
               /\ event' = [event EXCEPT ![p] = ExecuteResult(FailedEvent(GroupFormationError))]
               /\ log' = [log EXCEPT ![p] = @ \o << <<"ExecuteWithCommunicator", GroupFormationError>>, <<"event", event'[p].state>> >>]
               /\ EndCall(p)
    /\ UNCHANGED <<thunk, result, mem>>

\* destination_shape(index): the shape of destination operand index (from 0).
destination_shape(t, index) == t.op_buffers.destination_shapes[index + 1]

\* The byte sizes an out-of-bounds read of a shape may give: nothing, or as
\* much as a whole buffer.
GarbageByteSizes == {0, BufLen}

\* ShapeUtil::ByteSizeOf(destination_shape(0)).  Without any destination shape
\* the read is out of bounds: the value is whatever the memory holds.
ByteSizeChoices(t) ==
    IF Len(t.op_buffers.destination_shapes) > 0
    THEN {ByteSizeOf(destination_shape(t, 0))}
    ELSE GarbageByteSizes

\* A variant that fills the list from the last source buffer to the first.
input_buffers_Reversed(d) == [i \in 1 .. Len(d.source) |-> d.source[Len(d.source) + 1 - i]]

\* input_buffers: data.source[i].opaque() for i = 0 .. data.source.size()-1.
input_buffers(d) == [i \in 1 .. Len(d.source) |-> d.source[i]]

\* A variant that fills every entry of the list with the first destination.
output_buffers_Duplicated(d) == [i \in 1 .. Len(d.destination) |-> d.destination[1]]

\* output_buffers: data.destination[i].opaque() for i = 0 .. data.destination.size()-1.
output_buffers(d) == [i \in 1 .. Len(d.destination) |-> d.destination[i]]

\* A variant that builds a key of its own, the same for every call.
AllToAllKey_Fixed(key) == [run_id |-> 0, global_devices |-> Ranks]

\* comm.AllToAll(key, ...): the callback passes on the key the base gave it.
AllToAllKey(key) == key

\* A variant that scales the timeout with the amount of data.
AllToAllTimeout_PerByte(t, prm, n) == DefaultCollectiveTimeout * (n + 1)

\* comm.AllToAll(..., DefaultCollectiveTimeout()): the timeout of the call of
\* thunk t with params prm and byte size n.
AllToAllTimeout(t, prm, n) == DefaultCollectiveTimeout

\* A variant that reports success as soon as the primitive is started.
CallbackAllToAll_ReportsEarly(p) ==
    /\ pc[p] = "callback"
    /\ \E n \in ByteSizeChoices(thunk[p]) :
          call' = [call EXCEPT ![p] = [key |-> AllToAllKey(GetRendezvousKey(params[p].collective_params)),
                                       byte_size |-> n,
                                       input_buffers |-> input_buffers(data[p]),
                                       output_buffers |-> output_buffers(data[p]),
                                       timeout |-> AllToAllTimeout(thunk[p], params[p], n)]]
    /\ pc' = [pc EXCEPT ![p] = "in_alltoall"]
    /\ event' = [event EXCEPT ![p] = OkExecuteEvent]
    /\ log' = [log EXCEPT ![p] = @ \o << <<"AllToAll", "invoked">>, <<"event", "succeeded">> >>]
    /\ UNCHANGED <<thunk, params, data, result, mem>>

\* The callback up to its call of comm.AllToAll(key, byte size, inputs,
\* outputs, timeout), where the caller blocks.
CallbackAllToAll(p) ==
    /\ pc[p] = "callback"
    /\ \E n \in ByteSizeChoices(thunk[p]) :
          call' = [call EXCEPT ![p] = [key |-> AllToAllKey(GetRendezvousKey(params[p].collective_params)),
                                       byte_size |-> n,
                                       input_buffers |-> input_buffers(data[p]),
                                       output_buffers |-> output_buffers(data[p]),
                                       timeout |-> AllToAllTimeout(thunk[p], params[p], n)]]
    /\ pc' = [pc EXCEPT ![p] = "in_alltoall"]
    /\ log' = [log EXCEPT ![p] = Append(@, <<"AllToAll", "invoked">>)]
    /\ UNCHANGED <<thunk, params, data, event, result, mem>>

\* The out-of-bounds read of destination_shape(0) may also end the process.
CallbackCrash(p) ==
    /\ pc[p] = "callback"
    /\ Len(thunk[p].op_buffers.destination_shapes) = 0
    /\ pc' = [pc EXCEPT ![p] = "crashed"]
    /\ log' = [log EXCEPT ![p] = Append(@, <<"crash", "destination_shape">>)]
    /\ UNCHANGED <<thunk, params, data, event, call, result, mem>>

\* A variant that drops the status of the primitive.
CallbackStatus_Swallowed(r) == OkStatus

\* A variant that reports every failure of the primitive as one cause.
CallbackStatus_Collapsed(r) == IF r # OkStatus THEN TransportError ELSE OkStatus

\* TF_RETURN_IF_ERROR(comm.AllToAll(...)); return absl::OkStatus();
CallbackStatus(r) == IF r # OkStatus THEN r ELSE OkStatus

\* A variant that invokes the primitive again after a failure.
ExecuteReturn_Retries(p, r, left) ==
    /\ mem' = left
    /\ IF r # OkStatus
       THEN /\ pc' = [pc EXCEPT ![p] = "callback"]
            /\ log' = [log EXCEPT ![p] = Append(@, <<"AllToAll", r>>)]
            /\ result' = [result EXCEPT ![p] = "none"]
            /\ UNCHANGED <<event, params, data, call>>
       ELSE /\ event' = [event EXCEPT ![p] = OkExecuteEvent]
            /\ log' = [log EXCEPT ![p] = @ \o << <<"AllToAll", r>>, <<"event", "succeeded">> >>]
            /\ result' = [result EXCEPT ![p] = r]
            /\ pc' = [pc EXCEPT ![p] = "done"]
            /\ EndCall(p)
    /\ UNCHANGED thunk

\* A variant that resets the buffers of the call after a failed primitive.
ExecuteReturn_CleansUp(p, r, left) ==
    /\ LET ev == ExecuteResult(EventOfStatus(CallbackStatus(r))) IN
       /\ event' = [event EXCEPT ![p] = ev]
       /\ log' = [log EXCEPT ![p] = @ \o << <<"AllToAll", r>>, <<"event", ev.state>> >>]
    /\ result' = [result EXCEPT ![p] = r]
    /\ mem' = IF r # OkStatus
              THEN [a \in Addrs |-> IF a[2] = p THEN [k \in 1 .. BufLen |-> 0] ELSE left[a]]
              ELSE left
    /\ pc' = [pc EXCEPT ![p] = "done"]
    /\ EndCall(p)
    /\ UNCHANGED thunk

\* The primitive has returned status r to participant p and left the memory
\* as left: the callback returns its status, Execute returns the event of
\* that status, and the thunk touches no buffer.
ExecuteReturn(p, r, left) ==
    /\ LET ev == ExecuteResult(EventOfStatus(CallbackStatus(r))) IN
       /\ event' = [event EXCEPT ![p] = ev]
       /\ log' = [log EXCEPT ![p] = @ \o << <<"AllToAll", r>>, <<"event", ev.state>> >>]
    /\ result' = [result EXCEPT ![p] = r]
    /\ mem' = left
    /\ pc' = [pc EXCEPT ![p] = "done"]
    /\ EndCall(p)
    /\ UNCHANGED thunk

\* The primitive has returned OK to participant p after the exchange.
CallbackReturn(p) ==
    /\ pc[p] = "in_alltoall"
    /\ result[p] = OkStatus
    /\ ExecuteReturn(p, OkStatus, mem)

\* ----------------------------------------------------------- communicator

\* The participants of one rendezvous: every rank of the group is blocked in
\* the primitive with the same key and none has been answered.
AllArrived(k) == \A q \in Ranks : pc[q] = "in_alltoall" /\ result[q] = "none" /\ call[q].key = k

\* Destination slot i of rank P receives source slot P of rank i.
Receives(c, a, P, i) ==
    /\ i + 1 <= Len(c[P].output_buffers)
    /\ c[P].output_buffers[i + 1] = a
    /\ P + 1 <= Len(c[i].input_buffers)

\* The memory after the exchange of the calls c: a full transpose of the
\* participants' contributions, byte_size bytes per buffer.
Delivered(m, c) ==
    [a \in Addrs |->
        IF \E P \in Ranks, i \in Ranks : Receives(c, a, P, i)
        THEN LET w == CHOOSE w \in Ranks \X Ranks : Receives(c, a, w[1], w[2]) IN
             Memcpy(m[a], m[c[w[2]].input_buffers[w[1] + 1]], c[w[1]].byte_size)
        ELSE m[a]]

\* Every member has arrived: the data is exchanged and each call returns OK.
AllToAllExchange ==
    /\ \E k \in {call[q].key : q \in Ranks} : AllArrived(k)
    /\ mem' = Delivered(mem, call)
    /\ result' = [q \in Ranks |-> OkStatus]
    /\ UNCHANGED <<thunk, pc, params, data, event, call, log>>

\* The memory with the local part of the exchange of call c of rank p done:
\* source slot p of p copied into destination slot p of p.
SelfDelivered(m, c, p) ==
    IF p + 1 <= Len(c.output_buffers) /\ p + 1 <= Len(c.input_buffers)
    THEN [m EXCEPT ![c.output_buffers[p + 1]] = Memcpy(@, m[c.input_buffers[p + 1]], c.byte_size)]
    ELSE m

\* What a failing primitive may leave of the memory: nothing written, or
\* the exchange done in part.
LeftOnFailure(p) == {mem, SelfDelivered(mem, call[p], p)}

\* The primitive gives up on a blocked caller: the timeout elapses, the
\* transport fails, or the group falls apart; the call returns with that
\* error.
AllToAllFail(p) ==
    /\ pc[p] = "in_alltoall"
    /\ result[p] = "none"
    /\ \E e \in CommErrors, left \in LeftOnFailure(p) : ExecuteReturn(p, e, left)

\* ------------------------------------------------------------------- Next

\* The steps of the Execute call of participant p once it has started.
Step(p) ==
    \/ ExecuteWithCommunicator(p)
    \/ CallbackAllToAll(p)
    \/ CallbackCrash(p)
    \/ AllToAllFail(p)
    \/ CallbackReturn(p)

Next ==
    \/ \E p \in Ranks : Create(p)
    \/ \E p \in Ranks : ExecuteResolve(p)
    \/ \E p \in Ranks : Step(p)
    \/ AllToAllExchange

Spec == Init /\ [][Next]_vars

\* The scheduler runs every started call, and the primitive answers every
\* blocked caller (at the latest when its timeout elapses); nothing obliges
\* the scheduler to create a thunk or to start a call.
Fairness == \A p \in Ranks : WF_vars(Step(p))

LiveSpec == Init /\ [][Next]_vars /\ Fairness /\ WF_vars(AllToAllExchange)

\* ----------------------------------------------------------------- claims

\* Whether the log of participant p holds entry e.
InLog(p, e) == \E i \in 1 .. Len(log[p]) : log[p][i] = e

\* How often the log of participant p holds entry e.
Count(p, e) == Cardinality({i \in 1 .. Len(log[p]) : log[p][i] = e})

\* How often participant p called the step named name, whatever its outcome.
Calls(p, name) == Cardinality({i \in 1 .. Len(log[p]) : log[p][i][1] = name /\ log[p][i][2] \notin {"invoked", "failed", "succeeded"}})

ResolutionFailed(p) == InLog(p, <<"GetOpDeviceMemory", BufferResolutionError>>)

\* C1: when GetOpDeviceMemory reports a resolution failure, the event Execute
\* returns is already failed with that resolution error, and the call neither
\* asks for the communicator nor invokes Communicator.AllToAll.
C1_ResolutionFailureReturnsFailedEvent ==
    \A p \in Ranks :
        ResolutionFailed(p) =>
            /\ event[p] = FailedEvent(BufferResolutionError)
            /\ pc[p] = "done"
            /\ Calls(p, "ExecuteWithCommunicator") = 0
            /\ Count(p, <<"AllToAll", "invoked">>) = 0
            /\ call[p] = NoCall

C1_Witness == \E p \in Ranks : ResolutionFailed(p) /\ pc[p] = "done" /\ event[p].state = "failed"

\* Every thunk of the group was created with well-formed OpBuffers.
AllValid == \A q \in Ranks : thunk[q].kind = "kAllToAll" /\ thunk[q].op_buffers = ValidOpBuffers

\* C2: in a group whose thunks all have valid OpBuffers (one source and one
\* destination buffer per participant, equal byte size), once Execute of
\* participant P has succeeded, destination buffer i of P holds exactly the
\* bytes source buffer P of participant i held before the call (transpose);
\* with 2 participants, destination buffer 1 of participant 0 holds source
\* buffer 0 of participant 1 and the other way round.
C2_Transpose ==
    AllValid =>
        \A P \in Ranks :
            event[P].state = "succeeded" =>
                \A i \in Ranks : mem[DstAddr(P, i)] = SourceBytes(i, P)

C2_Witness ==
    /\ AllValid
    /\ \A P \in Ranks : event[P].state = "succeeded" /\ InLog(P, <<"AllToAll", OkStatus>>)
    /\ mem[DstAddr(0, NumParticipants - 1)] = SourceBytes(NumParticipants - 1, 0)
    /\ mem[DstAddr(0, NumParticipants - 1)] # InitMem[DstAddr(0, NumParticipants - 1)]

\* The primitive has returned to participant p and Execute has returned.
PrimitiveReturned(p) == pc[p] = "done" /\ result[p] # "none"

\* C3: the event Execute returns mirrors the outcome of Communicator.AllToAll:
\* complete when the primitive returned OK, failed with exactly the error of
\* the primitive otherwise, and never succeeded after a failed primitive.
C3_EventMirrorsPrimitive ==
    \A p \in Ranks :
        /\ PrimitiveReturned(p) /\ result[p] = OkStatus => event[p].state = "succeeded"
        /\ PrimitiveReturned(p) /\ result[p] # OkStatus => event[p].state = "failed" /\ event[p].error = result[p]
        /\ result[p] \in CommErrors => event[p].state # "succeeded"

C3_Witness ==
    \E p \in Ranks : PrimitiveReturned(p) /\ result[p] = TransportError /\ event[p] = FailedEvent(TransportError)

\* The error kinds an Execute call can end with.
ErrorKinds == {BufferResolutionError, GroupFormationError, CommunicationTimeout, TransportError}

\* The error of the step of participant p that failed, if one did.
FailedStepErrors(p) == {log[p][i][2] : i \in {j \in 1 .. Len(log[p]) : log[p][j][1] \in {"GetOpDeviceMemory", "ExecuteWithCommunicator", "AllToAll"} /\ log[p][j][2] \in ErrorKinds}}

\* C4: a timeout of the communicator ends the call with the failure cause
\* CommunicationTimeout; the four error kinds are four different causes, and
\* the cause of a failed event is the kind of the step that failed: no kind
\* is reported as another one.
C4_CausesStayDistinct ==
    /\ Cardinality(ErrorKinds) = 4
    /\ \A p \in Ranks :
          /\ InLog(p, <<"AllToAll", CommunicationTimeout>>) => event[p] = FailedEvent(CommunicationTimeout)
          /\ event[p].state = "failed" => FailedStepErrors(p) = {event[p].error}
          /\ pc[p] = "done" /\ FailedStepErrors(p) # {} => event[p].state = "failed"

C4_Witness ==
    \E p \in Ranks : InLog(p, <<"AllToAll", CommunicationTimeout>>) /\ event[p] = FailedEvent(CommunicationTimeout)

\* The event of participant p has been populated.
Populated(p) == event[p].state \in {"succeeded", "failed"}

\* How often the event of participant p was populated.
Populations(p) == Cardinality({i \in 1 .. Len(log[p]) : log[p][i][1] = "event"})

\* C5: the event of one Execute call is populated exactly once: it leaves the
\* pending state at most once, and once succeeded or failed it never changes
\* again, on every path through Execute.
C5_EventPopulatedOnce ==
    [][\A p \in Ranks :
          /\ Populated(p) => event'[p] = event[p]
          /\ Populations(p)' <= 1
          /\ Populated(p)' <=> Populations(p)' = 1
          /\ pc'[p] = "done" => Populated(p)']_vars

C5_Witness ==
    /\ \E p \in Ranks : event[p] = FailedEvent(GroupFormationError) /\ Populations(p) = 1
    /\ \E p \in Ranks : event[p] = FailedEvent(BufferResolutionError) /\ Populations(p) = 1

ZeroDestinations(p) == thunk[p].kind = "kAllToAll" /\ Len(thunk[p].op_buffers.destination_shapes) = 0

\* C6: for OpBuffers without any destination buffer, Create or the first
\* Execute fails with a resolution or validation error: the call does not
\* reach Communicator.AllToAll (with a byte size read from a destination
\* shape that does not exist) and does not end as a success.
C6_ZeroDestinationsRejected ==
    \A p \in Ranks :
        ZeroDestinations(p) =>
            /\ Count(p, <<"AllToAll", "invoked">>) = 0
            /\ event[p].state # "succeeded"
            /\ pc[p] # "crashed"

\* The arguments of the Create call of participant p.
CreateArgs(p) == log[p][1][3]

\* C7: Create succeeds for every argument combination: it returns a thunk of
\* kind AllToAll bound to exactly the given info, op params and op buffers,
\* never an error, and it resolves no buffer, asks for no communicator and
\* communicates nothing.
C7_CreateAlwaysSucceeds ==
    [][\A p \in Ranks :
          pc[p] = "nothunk" /\ pc'[p] # "nothunk" =>
              /\ pc'[p] = "created"
              /\ Len(log'[p]) = 1
              /\ log'[p][1][1] = "Create" /\ log'[p][1][2] = OkStatus
              /\ thunk'[p] = [kind |-> "kAllToAll", info |-> CreateArgs(p)'.info, op_params |-> CreateArgs(p)'.op_params, op_buffers |-> CreateArgs(p)'.op_buffers]
              /\ UNCHANGED <<params, data, event, call, result, mem>>]_vars

C7_Witness ==
    \E p \in Ranks : pc[p] = "created" /\ thunk[p].kind = "kAllToAll" /\ thunk[p].op_buffers = ZeroDstOpBuffers /\ Len(log[p]) = 1

\* Entry e of a log records a step that failed.
IsFailure(e) == e[1] \in {"GetOpDeviceMemory", "ExecuteWithCommunicator", "AllToAll"} /\ e[2] \in ErrorKinds

\* C8: nothing is retried inside the thunk: in one Execute call the buffer
\* resolution, the request for the communicator and Communicator.AllToAll are
\* each invoked at most once, and after one of them failed the call makes no
\* further attempt at that step or a later one.
C8_NoRetries ==
    \A p \in Ranks :
        /\ Calls(p, "GetOpDeviceMemory") <= 1
        /\ Calls(p, "ExecuteWithCommunicator") <= 1
        /\ Count(p, <<"AllToAll", "invoked">>) <= 1
        /\ Calls(p, "AllToAll") <= 1
        /\ \A i \in 1 .. Len(log[p]) :
              IsFailure(log[p][i]) =>
                  /\ pc[p] = "done"
                  /\ \A j \in (i + 1) .. Len(log[p]) : log[p][j][1] = "event"

C8_Witness ==
    \E p \in Ranks : pc[p] = "done" /\ InLog(p, <<"AllToAll", CommunicationTimeout>>) /\ Count(p, <<"AllToAll", "invoked">>) = 1

GroupFormationFailed(p) == InLog(p, <<"ExecuteWithCommunicator", GroupFormationError>>)

\* C9: when the group cannot be formed as the communicator is requested,
\* Execute returns a failed event carrying the group-formation error and
\* Communicator.AllToAll is not invoked in that call.
C9_GroupFormationFailure ==
    \A p \in Ranks :
        GroupFormationFailed(p) =>
            /\ event[p] = FailedEvent(GroupFormationError)
            /\ pc[p] = "done"
            /\ Count(p, <<"AllToAll", "invoked">>) = 0
            /\ result[p] = "none"

C9_Witness == \E p \in Ranks : GroupFormationFailed(p) /\ event[p] = FailedEvent(GroupFormationError)

\* C10: every Execute call eventually resolves its event: an event that is
\* pending does not stay pending for ever, also when a participant of the
\* group never arrives.
C10_EveryCallResolves == \A p \in Ranks : (event[p].state = "pending") ~> Populated(p)

\* Participant p is blocked in Communicator.AllToAll.
InFlight(p) == pc[p] = "in_alltoall"

\* The run id of the collective call participant p takes part in.
RunOf(p) == params[p].collective_params.run_id

\* C11: the key Execute passes to Communicator.AllToAll is the key the base
\* derives from the call's collective params: the participants of one
\* collective call pass the same key, participants of two distinct concurrent
\* calls pass distinct keys, and no data is exchanged between participants
\* of different calls (no cross-talk).
C11_KeyOfTheCall ==
    \A p \in Ranks :
        InFlight(p) =>
            /\ call[p].key = [run_id |-> RunOf(p), global_devices |-> Ranks]
            /\ \A q \in Ranks :
                  InFlight(q) =>
                      /\ (RunOf(p) = RunOf(q)) <=> (call[p].key = call[q].key)
                      /\ result[p] = OkStatus /\ result[q] = OkStatus => RunOf(p) = RunOf(q)
                      /\ RunOf(p) # RunOf(q) => mem[DstAddr(p, q)] = InitMem[DstAddr(p, q)]

C11_Witness ==
    \E p \in Ranks, q \in Ranks :
        /\ InFlight(p) /\ InFlight(q)
        /\ RunOf(p) # RunOf(q)
        /\ call[p].key # call[q].key
        /\ thunk[p].op_buffers = ValidOpBuffers /\ thunk[q].op_buffers = ValidOpBuffers

\* The thunks of p and q were created with identical arguments.
SameArguments(p, q) == thunk[p].kind = "kAllToAll" /\ thunk[q].kind = "kAllToAll" /\ CreateArgs(p) = CreateArgs(q)

\* A buffer list without the rank that owns the buffers: the kind and the
\* operand index of every entry, in order.
Operands(buffers) == [i \in 1 .. Len(buffers) |-> <<buffers[i][1], buffers[i][3]>>]

\* The callback of participant p has been entered and has gone on or ended.
PastCallback(p) == pc[p] \in {"in_alltoall", "crashed"} \/ InLog(p, <<"AllToAll", "invoked">>)

C13_FixedTimeout ==
    \A p \in Ranks :
        InFlight(p) =>
            /\ call[p].timeout = DefaultCollectiveTimeout
            /\ \A q \in Ranks : InFlight(q) => call[q].timeout = call[p].timeout

C13_Witness ==
    \E p \in Ranks, q \in Ranks :
        /\ InFlight(p) /\ InFlight(q)
        /\ thunk[p].op_buffers # thunk[q].op_buffers
        /\ RunOf(p) # RunOf(q)
        /\ call[p].byte_size # call[q].byte_size
        /\ call[p].timeout = call[q].timeout

\* C14: the byte size passed to Communicator.AllToAll is the byte size of
\* the destination shape (element count times element byte width) and is the
\* byte size of every destination buffer of the call: it equals the byte
\* size of destination shape i for every i.
C14_ByteSizeOfEveryDestination ==
    \A p \in Ranks :
        InFlight(p) =>
            \A i \in 1 .. Len(thunk[p].op_buffers.destination_shapes) :
                call[p].byte_size = thunk[p].op_buffers.destination_shapes[i].elements * thunk[p].op_buffers.destination_shapes[i].width

\* C15: when the primitive fails after it was invoked (timeout or transport
\* error, possibly with the exchange done in part), the step in which Execute
\* returns leaves every source and destination buffer exactly as the
\* Communicator left it (no write, reset or rollback by the thunk) and the
\* event it returns is failed with the error of the primitive, never
\* succeeded; every other step of the thunk leaves the memory untouched.
C15_NoCleanupOnFailure ==
    [][\A p \in Ranks :
          pc'[p] # pc[p] =>
              IF InFlight(p) /\ result[p] = "none"
              THEN /\ mem' \in LeftOnFailure(p)
                   /\ result'[p] \in CommErrors
                   /\ event'[p] = FailedEvent(result'[p])
              ELSE mem' = mem]_vars

C15_Witness ==
    \E p \in Ranks, i \in Ranks :
        /\ pc[p] = "done"
        /\ result[p] \in {CommunicationTimeout, TransportError}
        /\ event[p] = FailedEvent(result[p])
        /\ mem[DstAddr(p, p)] # InitMem[DstAddr(p, p)]
        /\ i # p
        /\ mem[DstAddr(p, i)] = InitMem[DstAddr(p, i)]
        /\ \A j \in Ranks : mem[SrcAddr(p, j)] = InitMem[SrcAddr(p, j)]

\* C16: the input and output pointer lists handed to Communicator.AllToAll
\* keep the count and the order of the resolved buffers: input entry i is
\* resolved source buffer i, output entry i is resolved destination buffer i,
\* no entry is dropped, duplicated or reordered, and no source buffer is in
\* the output list.
C16_PointerListsPreserveOrder ==
    \A p \in Ranks :
        InFlight(p) =>
            /\ Len(call[p].input_buffers) = Len(thunk[p].op_buffers.source_shapes)
            /\ Len(call[p].output_buffers) = Len(thunk[p].op_buffers.destination_shapes)
            /\ call[p].input_buffers = data[p].source
            /\ call[p].output_buffers = data[p].destination
            /\ \A i \in 1 .. Len(call[p].input_buffers) : call[p].input_buffers[i] = SrcAddr(p, i - 1)
            /\ \A i \in 1 .. Len(call[p].output_buffers) : call[p].output_buffers[i] = DstAddr(p, i - 1)
            /\ \A i \in 1 .. Len(call[p].output_buffers) :
                   \A j \in 1 .. Len(call[p].input_buffers) : call[p].output_buffers[i] # call[p].input_buffers[j]

C16_Witness ==
    \E p \in Ranks :
        /\ InFlight(p)
        /\ Len(call[p].input_buffers) = NumParticipants
        /\ Len(call[p].output_buffers) = NumParticipants
        /\ call[p].input_buffers[NumParticipants] = SrcAddr(p, NumParticipants - 1)
        /\ call[p].output_buffers[NumParticipants] = DstAddr(p, NumParticipants - 1)

\* Every entry of the log of p that satisfies After comes later than an entry
\* equal to before.
Precedes(p, before, After(_)) ==
    \A i \in 1 .. Len(log[p]) :
        After(log[p][i]) => \E j \in 1 .. (i - 1) : log[p][j] = before

IsCommunicatorRequest(e) == e[1] = "ExecuteWithCommunicator"

IsInvocation(e) == e = <<"AllToAll", "invoked">>

IsPrimitiveOk(e) == e = <<"AllToAll", OkStatus>>

IsSuccess(e) == e = <<"event", "succeeded">>

\* C17: the steps of one Execute call happen in a fixed order: the buffers
\* are resolved before the communicator is requested, the communicator is
\* obtained before Communicator.AllToAll is invoked, and the event is
\* succeeded only after Communicator.AllToAll has returned OK; the event is
\* never succeeded while the primitive has not been invoked or is in flight.
C17_FixedStepOrder ==
    \A p \in Ranks :
        /\ Precedes(p, <<"GetOpDeviceMemory", OkStatus>>, IsCommunicatorRequest)
        /\ Precedes(p, <<"ExecuteWithCommunicator", OkStatus>>, IsInvocation)
        /\ Precedes(p, <<"AllToAll", "invoked">>, IsPrimitiveOk)
        /\ Precedes(p, <<"AllToAll", OkStatus>>, IsSuccess)
        /\ event[p].state = "succeeded" =>
               /\ pc[p] = "done"
               /\ result[p] = OkStatus
               /\ InLog(p, <<"AllToAll", "invoked">>)
        /\ pc[p] \in {"created", "resolved", "callback", "in_alltoall", "crashed"} => event[p].state # "succeeded"

C17_Witness ==
    \E p \in Ranks :
        /\ event[p].state = "succeeded"
        /\ Len(log[p]) = 6
        /\ log[p][2] = <<"GetOpDeviceMemory", OkStatus>>
        /\ log[p][3] = <<"ExecuteWithCommunicator", OkStatus>>
        /\ log[p][4] = <<"AllToAll", "invoked">>
        /\ log[p][5] = <<"AllToAll", OkStatus>>
        /\ log[p][6] = <<"event", "succeeded">>

\* The callback of participant p is running or blocked in the primitive.
InCallback(p) == pc[p] \in {"callback", "in_alltoall"}

\* C18: the callback passed to ExecuteWithCommunicator, which refers to the
\* resolved buffers local to the Execute call, runs only while that Execute
\* call is active: while it runs the event is not yet returned and the
\* resolved buffers of the call are alive and are the ones in use; once
\* Execute has returned its event the callback is never invoked and no
\* resolved buffer of that call is held or used any more.
C18_BodyRunsWithinExecute ==
    \A p \in Ranks :
        /\ InCallback(p) =>
               /\ event[p] = PendingEvent
               /\ params[p] \in ExecuteParamsChoices
               /\ data[p] = GetOpDeviceMemory(p, thunk[p], params[p]).value
               /\ data[p] # NoData
        /\ InFlight(p) =>
               /\ call[p].input_buffers = data[p].source
               /\ call[p].output_buffers = data[p].destination
        /\ Populated(p) =>
               /\ pc[p] = "done"
               /\ data[p] = NoData
               /\ call[p] = NoCall
        /\ \A i \in 1 .. Len(log[p]) :
               log[p][i][1] = "event" => \A j \in (i + 1) .. Len(log[p]) : log[p][j][1] # "AllToAll"

C18_Witness ==
    \E p \in Ranks, q \in Ranks :
        /\ InFlight(p)
        /\ event[p] = PendingEvent
        /\ data[p].source # << >>
        /\ call[p].input_buffers = data[p].source
        /\ pc[q] = "done"
        /\ InLog(q, <<"AllToAll", "invoked">>)
        /\ Populated(q)
        /\ data[q] = NoData

=============================================================================
